---- MODULE Spec2Model ----
(***************************************************************************)
(* A model of the shapes.rs point-splatting renderer: the vector algebra   *)
(* of basetype.rs and math/trig.rs, the Shape and Object life cycle of     *)
(* shape/shape_base.rs and component/object.rs, and the perspective        *)
(* renderer pers_proj of math/projection.rs.                               *)
(*                                                                         *)
(* Number representation.  The program computes in f64; the model computes *)
(* in exact integer and rational arithmetic:                               *)
(*   - coordinates are integers;                                           *)
(*   - an angle is a whole number of quarter turns (q stands for q*pi/2),  *)
(*     whose sine and cosine are exactly -1, 0 or 1;                       *)
(*   - a distance is kept as its square (sqrt is strictly increasing on    *)
(*     the non-negative numbers, so < and = on distances are < and = on    *)
(*     their squares);                                                     *)
(*   - the field of view is kept as the rational tangent tan(fov);         *)
(*   - the cosine of the shading angle is compared with cos(j*pi/12) by    *)
(*     integer inequalities on squares.                                    *)
(***************************************************************************)
EXTENDS Integers, Sequences, FiniteSets, TLC

VARIABLES
    view,              \* the Viewport handed to pers_proj
    z_buffer,          \* pers_proj: per-cell stored depth (squared)
    projected_buffer,  \* pers_proj: the SimpleTerminalBuffer being filled
    iter,              \* pers_proj: number of point-loop iterations completed
    pc,                \* pers_proj: "loop", "returned" or "panicked"
    branch,            \* pers_proj: the path the last loop iteration took
    shapes,            \* the Shape values created so far
    shape_log,         \* for each of them, the call that returned it
    objs,              \* the Object values created so far
    obj_log,           \* for each of them, the call that returned it
    last_call,         \* the Shape/Object operation called last
    aborted,           \* a Shape/Object operation panicked
    calc,              \* the last call of a vector or Rotator function and its result
    torus,             \* TorusGenerator::generate_shape: its loops' locals
    term               \* a SimpleTerminalBuffer and the last call made on it

vars == <<view, z_buffer, projected_buffer, iter, pc, branch,
          shapes, shape_log, objs, obj_log, last_call, aborted, calc, torus, term>>

renderVars == <<view, z_buffer, projected_buffer, iter, pc, branch>>

shapeVars == <<shapes, shape_log, objs, obj_log, last_call, aborted>>

auxVars == <<calc, torus, term>>

-----------------------------------------------------------------------------
(* basetype.rs: Coord, Vector3D, Angle3D                                   *)

Abs(n) == IF n < 0 THEN -n ELSE n

Coord_new(x, y, z) == [x |-> x, y |-> y, z |-> z]

Coord_default == [x |-> 0, y |-> 0, z |-> 0]

Coord_sub(a, b) == [x |-> a.x - b.x, y |-> a.y - b.y, z |-> a.z - b.z]

Coord_add(a, b) == [x |-> a.x + b.x, y |-> a.y + b.y, z |-> a.z + b.z]

\* The value standing for "Vector3D::new panicked": no Vector3D exists.
NoVector == [panic |-> "zero vector"]

\* A Vector3D::new without the check for the zero vector.
Vector3D_new_unchecked(x, y, z) == [x |-> x, y |-> y, z |-> z]

Vector3D_new(x, y, z) ==
    IF x = 0 /\ y = 0 /\ z = 0 THEN NoVector ELSE [x |-> x, y |-> y, z |-> z]

Coord_to_vector(c) == Vector3D_new(c.x, c.y, c.z)

Vector3D_as_coord(v) == [x |-> v.x, y |-> v.y, z |-> v.z]

Angle3D_new(roll, pitch, yaw) == [roll |-> roll, pitch |-> pitch, yaw |-> yaw]

Angle3D_default == [roll |-> 0, pitch |-> 0, yaw |-> 0]

\* get_distance squared: the sum under the square root.
get_distance_sq(p1, p2) ==
    (p1.x - p2.x) * (p1.x - p2.x) + (p1.y - p2.y) * (p1.y - p2.y)
        + (p1.z - p2.z) * (p1.z - p2.z)

\* magnitude() squared.
magnitude_sq(v) == get_distance_sq(Coord_default, Vector3D_as_coord(v))

\* The exact square root of a perfect square.
Sqrt(n) == CHOOSE r \in 0..n : r * r = n

\* magnitude(), for a vector whose squared length is a perfect square.
magnitude(v) == Sqrt(magnitude_sq(v))

dot(a, b) ==
    LET x == IF a.x # 0 /\ b.x # 0 THEN a.x * b.x ELSE 0
        y == IF a.y # 0 /\ b.y # 0 THEN a.y * b.y ELSE 0
        z == IF a.z # 0 /\ b.z # 0 THEN a.z * b.z ELSE 0
    IN  x + y + z

\* normalise(), for a vector whose magnitude divides its components
\* (the axis-parallel vectors the model gives a camera).
normalise(v) ==
    LET mag == magnitude(v)
    IN  [x |-> v.x \div mag, y |-> v.y \div mag, z |-> v.z \div mag]

\* atan2 in quarter turns, on the axis-parallel arguments the model uses.
Atan2(y, x) ==
    CASE y = 0 /\ x >= 0 -> 0
      [] y > 0 /\ x = 0 -> 1
      [] y = 0 /\ x < 0 -> 2
      [] y < 0 /\ x = 0 -> -1

Vector3D_angle(v) ==
    [roll |-> 0,
     pitch |-> Atan2(v.z, Sqrt(v.x * v.x + v.y * v.y)),
     yaw |-> Atan2(v.y, v.x)]

-----------------------------------------------------------------------------
(* math/trig.rs: rotation by Euler angles, in quarter turns                *)

Cos(q) == CASE q % 4 = 0 -> 1 [] q % 4 = 1 -> 0 [] q % 4 = 2 -> -1 [] q % 4 = 3 -> 0

Sin(q) == CASE q % 4 = 0 -> 0 [] q % 4 = 1 -> 1 [] q % 4 = 2 -> 0 [] q % 4 = 3 -> -1

rotate3d_x(vector, angle) ==
    LET new_y == vector.y * Cos(angle) - vector.z * Sin(angle)
        new_z == vector.y * Sin(angle) + vector.z * Cos(angle)
    IN  Vector3D_new(vector.x, new_y, new_z)

rotate3d_y(vector, angle) ==
    LET new_x == vector.x * Cos(angle) + vector.z * Sin(angle)
        new_z == (-vector.x) * Sin(angle) + vector.z * Cos(angle)
    IN  Vector3D_new(new_x, vector.y, new_z)

rotate3d_z(vector, angle) ==
    LET new_x == vector.x * Cos(angle) - vector.y * Sin(angle)
        new_y == vector.x * Sin(angle) + vector.y * Cos(angle)
    IN  Vector3D_new(new_x, new_y, vector.z)

rotate_3d(rel_coord, angle) ==
    LET n_vec1 == rotate3d_z(rel_coord, angle.yaw)
        n_vec2 == rotate3d_y(n_vec1, angle.pitch)
    IN  rotate3d_x(n_vec2, angle.roll)

\* vector.rotate(angles) with an Angle3D, as shape_base.rs, object.rs and
\* projection.rs call it: the same Euler rotation that Point::rotate applies
\* to the position through trig::rotate_3d.
Vector3D_rotate(v, angles) == rotate_3d(v, angles)

-----------------------------------------------------------------------------
(* component/camera.rs, component/light.rs                                 *)

Camera_new(coord, facing, fov) ==
    [coord |-> coord, facing |-> normalise(facing), fov |-> fov]

Camera_angle(camera) == Vector3D_angle(camera.facing)

Light3D_new(coord) == [coord |-> coord]

-----------------------------------------------------------------------------
(* out/terminal.rs, util/buffer.rs: SimpleTerminalBuffer                   *)

Cells(size_x, size_y) == 0..(size_y * size_x - 1)

SimpleTerminalBuffer_new(size_x, size_y) ==
    [size_x |-> size_x, size_y |-> size_y,
     buffer |-> [c \in Cells(size_x, size_y) |-> " "]]

-----------------------------------------------------------------------------
(* shape/shape_gen.rs: the generators                                      *)

Point_new(rel_coord, normal) == [rel_coord |-> rel_coord, normal |-> normal]

TorusGenerator(thickness, radius, angle_iter) ==
    [kind |-> "torus", thickness |-> thickness, radius |-> radius,
     angle_iter |-> angle_iter]

CubeGenerator(x, y, z, node_dis) ==
    [kind |-> "cube", x |-> x, y |-> y, z |-> z, node_dis |-> node_dis]

\* The values 0, step, 2 * step, ... below a full turn (4 quarter turns),
\* in order: the values a `while a < 2.0 * PI` loop visits for step > 0.
AngleSteps(step) == [k \in 1..((4 + step - 1) \div step) |-> (k - 1) * step]

\* The sequences s[1], ..., applied in order and concatenated.
RECURSIVE Flatten(_)
Flatten(ss) == IF ss = <<>> THEN <<>> ELSE Head(ss) \o Flatten(Tail(ss))

\* TorusGenerator::generate_shape: the points pushed, in order.
Torus_points(g) ==
    LET as == AngleSteps(g.angle_iter[1])
        bs == AngleSteps(g.angle_iter[2])
        pt(a, b) ==
            Point_new(
                Coord_new(g.thickness * Cos(b),
                          (g.radius + g.thickness * Sin(b)) * Cos(a),
                          (g.radius + g.thickness * Sin(b)) * Sin(a)),
                Vector3D_new(Cos(b), Sin(b) * Cos(a), Sin(b) * Sin(a)))
    IN  Flatten([i \in 1..Len(as) |-> [j \in 1..Len(bs) |-> pt(as[i], bs[j])]])

\* One face of the cube: `for u in 0..nu { for v in 0..nv { push } }`.
Face(nu, nv, pt(_, _)) ==
    Flatten([i \in 1..nu |-> [j \in 1..nv |-> pt(i - 1, j - 1)]])

\* (extent / node_dis) as usize - 1, for extent >= node_dis > 0.
CubeBound(extent, node_dis) == (extent \div node_dis) - 1

\* CubeGenerator::generate_shape: the points pushed, in order (extents even,
\* so that the half extents are whole numbers).
Cube_points(g) ==
    LET edge_x == g.x \div 2
        edge_y == g.y \div 2
        edge_z == g.z \div 2
        d == g.node_dis
        nx == CubeBound(g.x, d)
        ny == CubeBound(g.y, d)
        nz == CubeBound(g.z, d)
        px(z, y) == Point_new(Coord_new(edge_x, edge_y - y * d, edge_z - z * d),
                              Vector3D_new(1, 0, 0))
        mx(z, y) == Point_new(Coord_new(-edge_x, edge_y - y * d, edge_z - z * d),
                              Vector3D_new(-1, 0, 0))
        py(z, x) == Point_new(Coord_new(edge_x - x * d, edge_y, edge_z - z * d),
                              Vector3D_new(0, 1, 0))
        my(z, x) == Point_new(Coord_new(edge_x - x * d, -edge_y, edge_z - z * d),
                              Vector3D_new(0, -1, 0))
        pz(y, x) == Point_new(Coord_new(edge_x - x * d, edge_y - y * d, edge_z),
                              Vector3D_new(0, 0, 1))
        mz(y, x) == Point_new(Coord_new(edge_x - x * d, edge_y - y * d, -edge_z),
                              Vector3D_new(0, 0, -1))
    IN  Face(nz, ny, px) \o Face(nz, ny, mx) \o Face(nz, nx, py)
            \o Face(nz, nx, my) \o Face(ny, nx, pz) \o Face(ny, nx, mz)

\* ShapeGen::generate_shape(&self, shape): the point list after the call.
generate_shape(g, points) ==
    points \o (IF g.kind = "torus" THEN Torus_points(g) ELSE Cube_points(g))

-----------------------------------------------------------------------------
(* shape/shape_base.rs: Shape and Point.  Besides the fields of the struct *)
(* a Shape records how it came to be: invocations counts the calls of the  *)
(* bound generator's generate_shape on it, and made_by is "new" or         *)
(* "rotate".                                                               *)

\* Mutant of Shape_generate_if_not: the generated flag is not consulted.
Shape_generate_always(shape) ==
    [shape EXCEPT !.points = generate_shape(shape.shape_generator, shape.points),
                  !.generated = TRUE,
                  !.invocations = @ + 1]

Shape_generate_if_not(shape) ==
    IF ~shape.generated
    THEN [shape EXCEPT !.points = generate_shape(shape.shape_generator, shape.points),
                       !.generated = TRUE,
                       !.invocations = @ + 1]
    ELSE shape

Shape_generate(shape) == Shape_generate_if_not(shape)

Shape_new(shape_generator) ==
    Shape_generate([points |-> <<>>, shape_generator |-> shape_generator,
                    generated |-> FALSE,
                    invocations |-> 0, made_by |-> "new"])

\* Mutant of Point_rotate: the normal is left as it was.
Point_rotate_position_only(point, angles) ==
    Point_new(Vector3D_as_coord(rotate_3d(point.rel_coord, angles)), point.normal)

Point_rotate(point, angles) ==
    Point_new(Vector3D_as_coord(rotate_3d(point.rel_coord, angles)),
              Vector3D_rotate(point.normal, angles))

Shape_rotate(shape, angles) ==
    [points |-> [k \in 1..Len(shape.points) |-> Point_rotate(shape.points[k], angles)],
     shape_generator |-> shape.shape_generator,
     generated |-> TRUE,
     invocations |-> 0, made_by |-> "rotate"]

-----------------------------------------------------------------------------
(* component/object.rs: Object                                             *)

Object_new_with_shape(location, shape, rotation, movement) ==
    [location |-> location, shape |-> shape, rotation |-> rotation,
     movement |-> movement]

Object_new(location, shape_generator, rotation, movement) ==
    Object_new_with_shape(location, Shape_new(shape_generator), rotation, movement)

\* rotate_around: the new Object, or NoVector when to_vector() panics because
\* the object sits on the pivot.
Object_rotate_around(self, around, angles) ==
    LET loc_sub == Coord_sub(self.location, around)
        v == Coord_to_vector(loc_sub)
    IN  IF v = NoVector THEN NoVector
        ELSE LET rotated_loc == Vector3D_as_coord(Vector3D_rotate(v, angles))
                 new_loc == Coord_add(self.location, rotated_loc)
             IN  Object_new_with_shape(new_loc, Shape_rotate(self.shape, angles),
                                       self.rotation, self.movement)

Object_rotate(self, angles) ==
    Object_new_with_shape(self.location, Shape_rotate(self.shape, angles),
                          self.rotation, self.movement)

-----------------------------------------------------------------------------
(* math/projection.rs: pers_proj                                           *)

luminance == <<".", ",", "-", "~", ":", ";", "=", "!", "*", "#", "$", "@">>

lumi_length == Len(luminance)

\* D / sqrt(M) >= cos(j * pi / 12), for 0 <= j <= 11 and M > 0.  The squares
\* of the cosines of 0, 15, ..., 90 degrees are 1, (2 + sqrt 3)/4, 3/4, 1/2,
\* 1/4, (2 - sqrt 3)/4 and 0.
CosGe(D, M, j) ==
    LET A == 4 * D * D - 2 * M
        SqGe(k) == CASE k = 0 -> D * D >= M
                     [] k = 1 -> A >= 0 /\ A * A >= 3 * M * M
                     [] k = 2 -> 4 * D * D >= 3 * M
                     [] k = 3 -> 2 * D * D >= M
                     [] k = 4 -> 4 * D * D >= M
                     [] k = 5 -> A >= 0 \/ A * A <= 3 * M * M
                     [] k = 6 -> TRUE
        SqLe(k) == CASE k = 1 -> A <= 0 \/ A * A <= 3 * M * M
                     [] k = 2 -> 4 * D * D <= 3 * M
                     [] k = 3 -> 2 * D * D <= M
                     [] k = 4 -> 4 * D * D <= M
                     [] k = 5 -> A <= 0 /\ A * A >= 3 * M * M
    IN  IF j <= 6 THEN D >= 0 /\ SqGe(j) ELSE D >= 0 \/ SqLe(12 - j)

\* ((1.0 - angle.abs() / PI) * lumi_length as f64) as i32, where
\* angle = acos(clamp(p_normal.dot(lp) / (|p_normal| * |lp|))).  With the
\* unnormalised normal n and light direction l the quotient is
\* dot(n, l) / sqrt(|n|^2 * |l|^2): normalise() scales by positive factors
\* that cancel.  The truncated product is the number of j in 0..11 with
\* angle <= j * pi / 12.
LumiIndex(n, l) ==
    LET D == dot(n, l)
        M == magnitude_sq(n) * magnitude_sq(l)
    IN  Cardinality({j \in 0..(lumi_length - 1) : CosGe(D, M, j)})

\* One pass of the light loop body: the value it assigns to lumi_index (in a
\* record), or NoVector when Vector3D::new panics because the light sits on
\* the point.
\* Mutant of LightStep: the brightest light so far is kept.
LightStepBrightest(lumi_index, light, p, normal) ==
    LET lp == Vector3D_new(light.coord.x - p.x, light.coord.y - p.y,
                           light.coord.z - p.z)
        new == LumiIndex(normal, lp)
    IN  IF lp = NoVector THEN NoVector
        ELSE [lumi_index |-> IF new > lumi_index THEN new ELSE lumi_index]

LightStep(lumi_index, light, p, normal) ==
    LET lp == Vector3D_new(light.coord.x - p.x, light.coord.y - p.y,
                           light.coord.z - p.z)
    IN  IF lp = NoVector THEN NoVector ELSE [lumi_index |-> LumiIndex(normal, lp)]

RECURSIVE LightLoop(_, _, _, _, _)
\* for light in &view.lights, from light number i on.
LightLoop(lights, i, lumi_index, p, normal) ==
    IF i > Len(lights) THEN [lumi_index |-> lumi_index]
    ELSE LET next == LightStep(lumi_index, lights[i], p, normal)
         IN  IF next = NoVector THEN NoVector
             ELSE LightLoop(lights, i + 1, next.lumi_index, p, normal)

\* 1.0 / tan(fov) * size_x / 2.0, as the fraction num / den.
pb_dis(fov, size_x) == [num |-> fov.den * size_x, den |-> 2 * fov.num]

\* (lat / fwd) * pb_dis + size / 2.0 for fwd # 0, as the fraction num / den
\* with den > 0: the screen coordinate before the cast.
ScreenFrac(lat, fwd, pb, size) ==
    LET n0 == 2 * lat * pb.num + size * fwd * pb.den
        d0 == 2 * fwd * pb.den
    IN  [num |-> IF d0 < 0 THEN -n0 ELSE n0, den |-> Abs(d0)]

\* ((lat / fwd) * pb_dis + size / 2.0) as usize.  The cast truncates,
\* sends every negative value and NaN (0/0) to 0, and sends +infinity to
\* usize::MAX, for which the model returns size: the bounds check treats
\* every value >= size alike.
BufferCoord(lat, fwd, pb, size) ==
    IF fwd = 0 THEN (IF lat > 0 THEN size ELSE 0)
    ELSE LET f == ScreenFrac(lat, fwd, pb, size)
         IN  IF f.num < 0 THEN 0 ELSE f.num \div f.den

\* Mutant of DepthWins: a tie wins too.
DepthWinsOrTies(stored, pv_dis) == stored <= pv_dis

\* if z_buffer[..] < pv_dis
DepthWins(stored, pv_dis) == stored < pv_dis

\* if buffer_x >= size_x || buffer_y >= size_y { continue; }
OutOfBounds(buffer_x, buffer_y, size_x, size_y) ==
    buffer_x >= size_x \/ buffer_y >= size_y

\* Mutant of WriteGlyph: an index outside the range is clamped into it.
WriteGlyphClamped(buf, cell, lumi_index) ==
    LET i == IF lumi_index < 0 THEN 0
             ELSE IF lumi_index >= lumi_length THEN lumi_length - 1
             ELSE lumi_index
    IN  [buf EXCEPT ![cell] = luminance[i + 1]]

\* The end of a winning iteration: skip an index outside the glyph range,
\* else write the glyph.
WriteGlyph(buf, cell, lumi_index) ==
    IF lumi_index < 0 \/ lumi_index >= lumi_length THEN buf
    ELSE [buf EXCEPT ![cell] = luminance[lumi_index + 1]]

\* World position of a point of an object.
WorldPos(obj, point) == Coord_add(point.rel_coord, obj.location)

\* Camera-relative vector of a world position, or NoVector.
CameraVector(vw, p) ==
    Vector3D_new(p.x - vw.camera.coord.x, p.y - vw.camera.coord.y,
                 p.z - vw.camera.coord.z)

\* The buffer cell (x, y, before the bounds check) a camera-relative vector
\* projects to.
Project(vw, pv) ==
    LET size_x == vw.buffer.size_x
        size_y == vw.buffer.size_y
        pb == pb_dis(vw.camera.fov, size_x)
        cpv == Vector3D_rotate(pv, Camera_angle(vw.camera))
    IN  [x |-> BufferCoord(cpv.y, cpv.x, pb, size_x),
         y |-> BufferCoord(cpv.z, cpv.x, pb, size_y)]

\* The body of the point loop for one point of one object: the buffers after
\* it and the path it took.
PointStep(vw, zb, buf, obj, point) ==
    LET size_x == vw.buffer.size_x
        size_y == vw.buffer.size_y
        p == WorldPos(obj, point)
        pv == CameraVector(vw, p)
    IN  IF pv = NoVector
        THEN [z_buffer |-> zb, buffer |-> buf, branch |-> "panic_pv"]
        ELSE
        LET pv_dis == magnitude_sq(pv)
            b == Project(vw, pv)
            cell == b.y * size_x + b.x
        IN  IF OutOfBounds(b.x, b.y, size_x, size_y)
            THEN [z_buffer |-> zb, buffer |-> buf, branch |-> "clipped"]
            ELSE IF ~DepthWins(zb[cell], pv_dis)
            THEN [z_buffer |-> zb, buffer |-> buf, branch |-> "lost"]
            ELSE
            LET zb2 == [zb EXCEPT ![cell] = pv_dis]
                lit == LightLoop(vw.lights, 1, 0, p, point.normal)
                lumi_index == lit.lumi_index
            IN  IF lit = NoVector
                THEN [z_buffer |-> zb2, buffer |-> buf, branch |-> "panic_lp"]
                ELSE [z_buffer |-> zb2,
                      buffer |-> WriteGlyph(buf, cell, lumi_index),
                      branch |-> IF lumi_index \in 0..(lumi_length - 1)
                                 THEN "written" ELSE "no_glyph"]

\* The (object, point) pairs in the order the nested loops visit them.
RECURSIVE Work(_, _, _)
Work(objects, o, k) ==
    IF o > Len(objects) THEN <<>>
    ELSE IF k > Len(objects[o].shape.points) THEN Work(objects, o + 1, 1)
    ELSE <<[obj |-> o, pt |-> k]>> \o Work(objects, o, k + 1)

WorkList == Work(view.objects, 1, 1)

-----------------------------------------------------------------------------
(* The scenes pers_proj is run on                                          *)

MaxObjects == 2

MaxLights == 2

\* A Shape whose points a generator of the caller has produced.
ShapeOf(points) ==
    [points |-> points, shape_generator |-> "given", generated |-> TRUE,
     invocations |-> 1, made_by |-> "new"]

Placed(location, points) ==
    Object_new_with_shape(location, ShapeOf(points), Angle3D_default, Coord_default)

P_near == Point_new(Coord_new(1, 0, 0), Vector3D_new(-1, 0, 0))

P_far == Point_new(Coord_new(2, 0, 0), Vector3D_new(-1, 0, 1))

P_up == Point_new(Coord_new(2, 0, 0), Vector3D_new(0, 0, 1))

P_behind == Point_new(Coord_new(-1, 0, 0), Vector3D_new(1, 0, 0))

P_left == Point_new(Coord_new(1, -2, 0), Vector3D_new(-1, 0, 0))

P_high == Point_new(Coord_new(1, 0, 2), Vector3D_new(-1, 0, 0))

P_side == Point_new(Coord_new(2, 1, -1), Vector3D_new(-1, 0, 1))

ObjectSet ==
    { Placed(Coord_new(0, 0, 0), <<P_near>>),
      Placed(Coord_new(0, 0, 0), <<P_far>>),
      Placed(Coord_new(1, 0, 0), <<P_near>>),
      Placed(Coord_new(0, 0, 0), <<P_behind>>),
      Placed(Coord_new(1, 0, 0), <<P_behind>>),
      Placed(Coord_new(0, 0, 0), <<P_left, P_high>>),
      Placed(Coord_new(0, 0, 0), <<P_side, P_up>>),
      Placed(Coord_new(0, 0, 0), <<>>) }

LightSet ==
    { Light3D_new(Coord_new(0, 0, 0)),
      Light3D_new(Coord_new(0, 0, 3)),
      Light3D_new(Coord_new(2, 0, 0)) }

\* tan(fov) as a fraction: 45 degrees.
FovSet == { [num |-> 1, den |-> 1] }

FacingSet == { Vector3D_new(2, 0, 0), Vector3D_new(0, 1, 0), Vector3D_new(0, 0, 1) }

CameraSet ==
    { Camera_new(Coord_new(0, 0, 0), f, fov) : f \in FacingSet, fov \in FovSet }

\* Buffer sizes <<size_x, size_y>>; the odd ones go with the camera along x.
SizesFor(camera) ==
    IF camera.facing = Vector3D_new(1, 0, 0) THEN { <<4, 4>>, <<5, 3>> } ELSE { <<4, 4>> }

SeqsUpTo(S, n) == UNION { [1..k -> S] : k \in 0..n }

ViewsOf(c) ==
    { [camera |-> c, lights |-> ls, objects |-> os,
       buffer |-> SimpleTerminalBuffer_new(sz[1], sz[2])] :
        ls \in SeqsUpTo(LightSet, MaxLights),
        os \in SeqsUpTo(ObjectSet, MaxObjects), sz \in SizesFor(c) }

-----------------------------------------------------------------------------
(* pers_proj as a state machine: one step per iteration of the point loop  *)

Init ==
    /\ \E c \in CameraSet : view \in ViewsOf(c)
    /\ z_buffer = [c \in Cells(view.buffer.size_x, view.buffer.size_y) |-> 0]
    /\ projected_buffer =
           SimpleTerminalBuffer_new(view.buffer.size_x, view.buffer.size_y).buffer
    /\ iter = 0
    /\ pc = "loop"
    /\ branch = "none"
    /\ shapes = <<>>
    /\ shape_log = <<>>
    /\ objs = <<>>
    /\ obj_log = <<>>
    /\ last_call = [op |-> "none"]
    /\ aborted = FALSE
    /\ calc = [op |-> "none"]
    /\ torus = [pc |-> "idle"]
    /\ term = [op |-> "none"]

\* The object and the point the next iteration works on.
CurObj == view.objects[WorkList[iter + 1].obj]

CurPoint == CurObj.shape.points[WorkList[iter + 1].pt]

ProcessPoint ==
    /\ pc = "loop"
    /\ iter < Len(WorkList)
    /\ LET r == PointStep(view, z_buffer, projected_buffer, CurObj, CurPoint)
       IN  /\ z_buffer' = r.z_buffer
           /\ projected_buffer' = r.buffer
           /\ branch' = r.branch
           /\ pc' = IF r.branch \in {"panic_pv", "panic_lp"} THEN "panicked" ELSE "loop"
    /\ iter' = iter + 1
    /\ UNCHANGED <<view, shapeVars, auxVars>>

Return ==
    /\ pc = "loop"
    /\ iter = Len(WorkList)
    /\ pc' = "returned"
    /\ UNCHANGED <<view, z_buffer, projected_buffer, iter, branch, shapeVars, auxVars>>

Next == ProcessPoint \/ Return

Spec == Init /\ [][Next]_vars

-----------------------------------------------------------------------------
(* The Shape and Object operations as a state machine: a caller creates,   *)
(* regenerates and rotates Shapes and Objects in any order                 *)

MaxValues == 3

GenSet ==
    { CubeGenerator(2, 2, 2, 1),
      TorusGenerator(1, 2, <<2, 1>>) }

AngleSet ==
    { Angle3D_default,
      Angle3D_new(1, 0, 1) }

LocationSet == { Coord_new(1, 0, 0), Coord_new(0, 2, 0) }

PivotSet == { Coord_new(0, 0, 0), Coord_new(1, 0, 0) }

\* The Viewport of a caller that is not rendering.
NoView ==
    [camera |-> Camera_new(Coord_default, Vector3D_new(1, 0, 0), [num |-> 1, den |-> 1]),
     lights |-> <<>>, objects |-> <<>>, buffer |-> SimpleTerminalBuffer_new(1, 1)]

InitShape ==
    /\ view = NoView
    /\ z_buffer = [c \in Cells(1, 1) |-> 0]
    /\ projected_buffer = NoView.buffer.buffer
    /\ iter = 0
    /\ pc = "idle"
    /\ branch = "none"
    /\ shapes = <<>>
    /\ shape_log = <<>>
    /\ objs = <<>>
    /\ obj_log = <<>>
    /\ last_call = [op |-> "none"]
    /\ aborted = FALSE
    /\ calc = [op |-> "none"]
    /\ torus = [pc |-> "idle"]
    /\ term = [op |-> "none"]

\* Room for one more Shape or Object value.
Room == Len(shapes) + Len(objs) < MaxValues

\* Shape::new(&generator)
NewShape ==
    /\ ~aborted
    /\ Room
    /\ \E g \in GenSet :
           /\ shapes' = Append(shapes, Shape_new(g))
           /\ shape_log' = Append(shape_log, [op |-> "new"])
    /\ last_call' = [op |-> "Shape::new"]
    /\ UNCHANGED <<renderVars, auxVars, objs, obj_log, aborted>>

\* shape.generate()
GenerateShape ==
    /\ ~aborted
    /\ \E i \in DOMAIN shapes :
           /\ shapes' = [shapes EXCEPT ![i] = Shape_generate(shapes[i])]
           /\ last_call' = [op |-> "Shape::generate", shape |-> i]
    /\ UNCHANGED <<renderVars, auxVars, shape_log, objs, obj_log, aborted>>

\* shape.rotate(angles)
RotateShape ==
    /\ ~aborted
    /\ Room
    /\ \E i \in DOMAIN shapes, a \in AngleSet :
           /\ shapes' = Append(shapes, Shape_rotate(shapes[i], a))
           /\ shape_log' = Append(shape_log, [op |-> "rotate", of |-> i, angles |-> a])
    /\ last_call' = [op |-> "Shape::rotate"]
    /\ UNCHANGED <<renderVars, auxVars, objs, obj_log, aborted>>

\* Object::new(location, &generator, rotation, movement)
NewObject ==
    /\ ~aborted
    /\ Room
    /\ \E l \in LocationSet, g \in GenSet :
           /\ objs' = Append(objs, Object_new(l, g, Angle3D_default, Coord_default))
           /\ obj_log' = Append(obj_log, [op |-> "new"])
    /\ last_call' = [op |-> "Object::new"]
    /\ UNCHANGED <<renderVars, auxVars, shapes, shape_log, aborted>>

\* object.shape.generate()
GenerateObjectShape ==
    /\ ~aborted
    /\ \E o \in DOMAIN objs :
           /\ objs' = [objs EXCEPT ![o].shape = Shape_generate(objs[o].shape)]
           /\ last_call' = [op |-> "Shape::generate", object |-> o]
    /\ UNCHANGED <<renderVars, auxVars, shapes, shape_log, obj_log, aborted>>

\* object.rotate_around(around, angles)
RotateAround ==
    /\ ~aborted
    /\ Room
    /\ \E o \in DOMAIN objs, p \in PivotSet, a \in AngleSet :
           LET r == Object_rotate_around(objs[o], p, a)
           IN  IF r = NoVector
               THEN aborted' = TRUE /\ UNCHANGED <<objs, obj_log>>
               ELSE /\ objs' = Append(objs, r)
                    /\ obj_log' = Append(obj_log, [op |-> "rotate_around", of |-> o,
                                                   around |-> p, angles |-> a])
                    /\ UNCHANGED aborted
    /\ last_call' = [op |-> "Object::rotate_around"]
    /\ UNCHANGED <<renderVars, auxVars, shapes, shape_log>>

\* object.rotate(angles)
RotateObject ==
    /\ ~aborted
    /\ Room
    /\ \E o \in DOMAIN objs, a \in AngleSet :
           /\ objs' = Append(objs, Object_rotate(objs[o], a))
           /\ obj_log' = Append(obj_log, [op |-> "rotate", of |-> o, angles |-> a])
    /\ last_call' = [op |-> "Object::rotate"]
    /\ UNCHANGED <<renderVars, auxVars, shapes, shape_log, aborted>>

NextShape ==
    \/ NewShape
    \/ GenerateShape
    \/ RotateShape
    \/ NewObject
    \/ GenerateObjectShape
    \/ RotateAround
    \/ RotateObject

SpecShape == InitShape /\ [][NextShape]_vars

-----------------------------------------------------------------------------
(* What pers_proj computes for the i-th point of the iteration order       *)

NPoints == Len(WorkList)

PtObj(i) == view.objects[WorkList[i].obj]

Pt(i) == PtObj(i).shape.points[WorkList[i].pt]

PtWorld(i) == WorldPos(PtObj(i), Pt(i))

PtPv(i) == CameraVector(view, PtWorld(i))

PtCpv(i) == Vector3D_rotate(PtPv(i), Camera_angle(view.camera))

PtDistSq(i) == magnitude_sq(PtPv(i))

PtXY(i) == Project(view, PtPv(i))

PtInBounds(i) ==
    ~OutOfBounds(PtXY(i).x, PtXY(i).y, view.buffer.size_x, view.buffer.size_y)

PtCell(i) == PtXY(i).y * view.buffer.size_x + PtXY(i).x

PtLit(i) == LightLoop(view.lights, 1, 0, PtWorld(i), Pt(i).normal)

PtGlyph(i) == luminance[PtLit(i).lumi_index + 1]

\* The screen coordinates before the cast, for a point with cpv_x # 0.
PtScreenX(i) ==
    ScreenFrac(PtCpv(i).y, PtCpv(i).x,
               pb_dis(view.camera.fov, view.buffer.size_x), view.buffer.size_x)

PtScreenY(i) ==
    ScreenFrac(PtCpv(i).z, PtCpv(i).x,
               pb_dis(view.camera.fov, view.buffer.size_x), view.buffer.size_y)

FracInRange(f, size) == 0 <= f.num /\ f.num < size * f.den

\* screen_x in [0, W) and screen_y in [0, H).
PtScreenInRange(i) ==
    /\ FracInRange(PtScreenX(i), view.buffer.size_x)
    /\ FracInRange(PtScreenY(i), view.buffer.size_y)

\* In front of the camera and projected inside the buffer.
PtVisible(i) == PtCpv(i).x > 0 /\ PtScreenInRange(i)

\* The point loop is about to run the body for point number iter + 1.
Processing == pc = "loop" /\ iter < NPoints

\* ... and that point passes Vector3D::new, the bounds check and the depth test.
CurWins ==
    /\ Processing
    /\ PtPv(iter + 1) # NoVector
    /\ PtInBounds(iter + 1)
    /\ z_buffer[PtCell(iter + 1)] < PtDistSq(iter + 1)

CentreCell ==
    (view.buffer.size_y \div 2) * view.buffer.size_x + (view.buffer.size_x \div 2)

-----------------------------------------------------------------------------
(* Claims about pers_proj                                                  *)

\* C1: after the render, a cell that exactly two visible points project to,
\* at camera distances d1 < d2, holds the glyph computed from the nearer
\* point's shading, whichever of the two was processed first.
C1_NearerPointWins ==
    pc = "returned" =>
        \A i, j \in 1..NPoints :
            ( /\ i # j
              /\ PtVisible(i) /\ PtVisible(j)
              /\ PtCell(i) = PtCell(j)
              /\ PtDistSq(i) < PtDistSq(j)
              /\ \A k \in 1..NPoints \ {i, j} :
                     ~(PtInBounds(k) /\ PtCell(k) = PtCell(i))
              /\ PtLit(i).lumi_index \in 0..(lumi_length - 1) )
            => projected_buffer[PtCell(i)] = PtGlyph(i)

\* C2: an iteration for a point whose view-space forward component cpv_x is
\* negative (a point behind the camera) writes no cell of the output buffer.
C2_BehindCameraNeverWritten ==
    [][ (Processing /\ PtPv(iter + 1) # NoVector /\ PtCpv(iter + 1).x < 0)
            => projected_buffer' = projected_buffer ]_vars

\* C3: an iteration for a point whose projected screen_x is outside [0, W) or
\* whose projected screen_y is outside [0, H), negative values included,
\* changes neither the depth buffer nor the output buffer and does not abort.
C3_OffScreenDiscarded ==
    [][ ( /\ Processing
          /\ PtPv(iter + 1) # NoVector
          /\ PtCpv(iter + 1).x # 0
          /\ ~PtScreenInRange(iter + 1) )
            => ( /\ z_buffer' = z_buffer
                 /\ projected_buffer' = projected_buffer
                 /\ pc' # "panicked" ) ]_vars

\* The scene of C4: one point on the forward (x) axis of a camera at the
\* origin with zero rotation, its normal facing the camera, and a single
\* light at the camera position.
C4Scene ==
    /\ NPoints = 1
    /\ view.camera.coord = Coord_default
    /\ Camera_angle(view.camera) = Angle3D_default
    /\ PtWorld(1).x > 0 /\ PtWorld(1).y = 0 /\ PtWorld(1).z = 0
    /\ Pt(1).normal.x < 0 /\ Pt(1).normal.y = 0 /\ Pt(1).normal.z = 0
    /\ view.lights = <<Light3D_new(view.camera.coord)>>

\* C4: rendering the scene of C4 writes the centre cell (row H/2, column W/2)
\* with the last glyph of the luminance ramp and writes no other cell.
C4_CentreCellBrightest ==
    (pc = "returned" /\ C4Scene) =>
        projected_buffer =
            [c \in Cells(view.buffer.size_x, view.buffer.size_y) |->
                IF c = CentreCell THEN luminance[lumi_length] ELSE " "]

\* C5: the depth test is strict: an iteration for a point whose camera
\* distance equals the depth stored for its cell changes neither the stored
\* depths nor any glyph.
C5_StrictDepthTest ==
    [][ ( /\ Processing
          /\ PtPv(iter + 1) # NoVector
          /\ PtInBounds(iter + 1)
          /\ z_buffer[PtCell(iter + 1)] = PtDistSq(iter + 1) )
            => (z_buffer' = z_buffer /\ projected_buffer' = projected_buffer) ]_vars

\* C5 witness: the iteration just completed met a stored depth equal to its
\* own distance, left by an earlier point of the same cell, and lost.
C5_Witness ==
    /\ iter > 1
    /\ Camera_angle(view.camera) = Angle3D_default
    /\ branch = "lost"
    /\ PtInBounds(iter)
    /\ z_buffer[PtCell(iter)] = PtDistSq(iter)
    /\ \E e \in 1..(iter - 1) :
           /\ PtInBounds(e) /\ PtCell(e) = PtCell(iter)
           /\ PtDistSq(e) = PtDistSq(iter)
           /\ PtLit(e) # PtLit(iter)

C7_OutOfRangeIndexKeepsCell ==
    [][ ( /\ CurWins
          /\ PtLit(iter + 1) # NoVector
          /\ PtLit(iter + 1).lumi_index \notin 0..(lumi_length - 1) )
            => (projected_buffer' = projected_buffer /\ pc' # "panicked") ]_vars

\* C7 witness: the iteration just completed won its cell with an index
\* outside the glyph range, and the cell still holds what it held.
C7_Witness ==
    /\ iter > 0
    /\ Camera_angle(view.camera) = Angle3D_default
    /\ branch = "no_glyph"
    /\ z_buffer[PtCell(iter)] = PtDistSq(iter)
    /\ PtLit(iter).lumi_index \notin 0..(lumi_length - 1)
    /\ projected_buffer[PtCell(iter)] = " "

-----------------------------------------------------------------------------
(* Claims about Shape and Object                                           *)

\* Every Shape value that exists: the caller's and the ones Objects own.
AllShapes == { shapes[i] : i \in DOMAIN shapes } \cup { objs[o].shape : o \in DOMAIN objs }

\* A Shape once generated keeps its flag and its points.
StaysGenerated(before, after) ==
    before.generated => (after.generated /\ after.points = before.points)

\* C8: over any sequence of Shape::new, generate() and rotate() calls, the
\* bound generator's generate_shape has been invoked exactly once on every
\* Shape made by new and never on a Shape made by rotate; a generated flag
\* that is true stays true, and no call (generate() included) changes the
\* point list of a generated Shape.
C8_GenerateExactlyOnce ==
    /\ [](\A s \in AllShapes :
              s.invocations = (IF s.made_by = "new" THEN 1 ELSE 0))
    /\ [][ /\ \A i \in DOMAIN shapes : StaysGenerated(shapes[i], shapes'[i])
           /\ \A o \in DOMAIN objs : StaysGenerated(objs[o].shape, objs'[o].shape) ]_vars

\* C8 witness: generate() has just been called again on a Shape that new had
\* returned; it still holds the points of the one invocation of its
\* generator, and a Shape that rotate returned from it holds points without
\* any invocation.
C8_Witness ==
    /\ last_call.op = "Shape::generate"
    /\ "shape" \in DOMAIN last_call
    /\ LET i == last_call.shape
       IN  /\ shapes[i].made_by = "new"
           /\ shapes[i].generated
           /\ shapes[i].invocations = 1
           /\ shapes[i].points = generate_shape(shapes[i].shape_generator, <<>>)
           /\ shapes[i].points # <<>>
           /\ \E j \in DOMAIN shapes :
                  /\ shape_log[j].op = "rotate"
                  /\ shape_log[j].of = i
                  /\ shapes[j].made_by = "rotate"
                  /\ shapes[j].invocations = 0
                  /\ shapes[j].generated

\* C9: the Shape that rotate returned has the receiver's generator, the
\* generated flag set, no generator invocation, and for each point of the
\* receiver, in order, the point with position and normal rotated by the
\* angles; the call leaves every existing Shape, the receiver included, as
\* it was.
C9_RotateReturnsNewShape ==
    /\ [](\A i \in DOMAIN shapes :
              shape_log[i].op = "rotate" =>
                  LET r == shapes[shape_log[i].of]
                      a == shape_log[i].angles
                  IN  /\ shapes[i].shape_generator = r.shape_generator
                      /\ shapes[i].generated
                      /\ shapes[i].invocations = 0
                      /\ Len(shapes[i].points) = Len(r.points)
                      /\ \A k \in DOMAIN r.points :
                             /\ shapes[i].points[k].rel_coord =
                                    Vector3D_as_coord(rotate_3d(r.points[k].rel_coord, a))
                             /\ shapes[i].points[k].normal =
                                    Vector3D_rotate(r.points[k].normal, a))
    /\ [][ ( /\ Len(shapes') = Len(shapes) + 1
             /\ shape_log'[Len(shapes')].op = "rotate" )
               => SubSeq(shapes', 1, Len(shapes)) = shapes ]_vars

\* C9 witness: a Shape returned by rotate with angles that are not all zero,
\* whose points differ from the receiver's.
C9_Witness ==
    \E i \in DOMAIN shapes :
        /\ shape_log[i].op = "rotate"
        /\ shape_log[i].angles # Angle3D_default
        /\ Len(shapes[i].points) > 1
        /\ shapes[i].generated
        /\ \A k \in DOMAIN shapes[i].points :
               shapes[i].points[k].normal # shapes[shape_log[i].of].points[k].normal

\* The rotation of a relative position (the zero offset stays zero).
RotatedOffset(c, angles) ==
    IF c = Coord_default THEN Coord_default
    ELSE Vector3D_as_coord(Vector3D_rotate(Coord_to_vector(c), angles))

\* C10: the Object that rotate_around(pivot, rotation) returned is located at
\* pivot + rotation applied to (location - pivot), and its Shape holds the
\* receiver's points rotated by the same rotation; in particular the identity
\* rotation returns an Object at the receiver's location.
C10_RotateAroundPivot ==
    \A o \in DOMAIN objs :
        obj_log[o].op = "rotate_around" =>
            LET r == objs[obj_log[o].of]
                p == obj_log[o].around
                a == obj_log[o].angles
            IN  /\ objs[o].location =
                       Coord_add(p, RotatedOffset(Coord_sub(r.location, p), a))
                /\ objs[o].shape.points = Shape_rotate(r.shape, a).points
                /\ (a = Angle3D_default => objs[o].location = r.location)

-----------------------------------------------------------------------------
(* Claims about Object::rotate                                             *)

\* impl Add for Angle3D: the one composition of orientations the code has.
Angle3D_add(a, b) ==
    [roll |-> a.roll + b.roll, pitch |-> a.pitch + b.pitch, yaw |-> a.yaw + b.yaw]

\* C11: the Object that rotate(rotation) returned is at the receiver's
\* location, holds the receiver's Shape rotated by rotation, and stores the
\* receiver's orientation composed with rotation.
C11_RotateComposesOrientation ==
    \A o \in DOMAIN objs :
        obj_log[o].op = "rotate" =>
            LET r == objs[obj_log[o].of]
                a == obj_log[o].angles
            IN  /\ objs[o].location = r.location
                /\ objs[o].shape.points = Shape_rotate(r.shape, a).points
                /\ objs[o].rotation = Angle3D_add(r.rotation, a)

-----------------------------------------------------------------------------
(* basetype.rs: Vector3D::cross; shape/rotator.rs: Rotator                 *)
(*                                                                         *)
(* A Rotator's components are fractions over one common denominator: the   *)
(* record [x, y, z, w, den] stands for the quaternion (x, y, z, w) / den.  *)
(* The f64 angle of Rotator::new is kept as the cosine and sine of its     *)
(* half, [c, s, d] standing for cos = c / d and sin = s / d; the angles of  *)
(* from_global are whole quarter turns, of which the even ones have a half *)
(* that is again a whole number of quarter turns.                          *)

cross(a, b) == [x |-> a.y * b.z, y |-> a.z * b.x, z |-> a.x * b.y]

\* The value standing for a panic of Rotator::new or Rotator::normalize.
NoRotator == [panic |-> "zero quaternion"]

\* -angle: cos is even and sin is odd.
NegAngle(angle) == [c |-> angle.c, s |-> -angle.s, d |-> angle.d]

Rotator_new(axis, angle) ==
    LET norm_sq == axis.x * axis.x + axis.y * axis.y + axis.z * axis.z
        norm == Sqrt(norm_sq)
    IN  IF norm_sq = 0 THEN NoRotator
        ELSE [x |-> axis.x * angle.s, y |-> axis.y * angle.s, z |-> axis.z * angle.s,
              w |-> angle.c * norm, den |-> norm * angle.d]

\* A conjugate that negates nothing.
Rotator_conjugate_none(q) == q

Rotator_conjugate(q) == [x |-> -q.x, y |-> -q.y, z |-> -q.z, w |-> q.w, den |-> q.den]

\* cos and sin of half of an even number of quarter turns.
CosHalf(q) == Cos(q \div 2)

SinHalf(q) == Sin(q \div 2)

\* impl Default for Rotator
Rotator_default == [x |-> 1, y |-> 0, z |-> 0, w |-> 0, den |-> 1]

\* A from_global that returns the default Rotator whatever the angles.
Rotator_from_global_default(angle) == Rotator_default

Rotator_from_global(angle) ==
    LET cr == CosHalf(angle.roll)
        sr == SinHalf(angle.roll)
        cp == CosHalf(angle.pitch)
        sp == SinHalf(angle.pitch)
        cy == CosHalf(angle.yaw)
        sy == SinHalf(angle.yaw)
    IN  [x |-> sr * cp * cy - cr * sp * sy,
         y |-> cr * sp * cy + sr * cp * sy,
         z |-> cr * cp * sy - sr * sp * cy,
         w |-> cr * cp * cy + sr * sp * sy,
         den |-> 1]

\* normalize(): dividing (x, y, z, w) / den by its magnitude mag_num / den
\* leaves (x, y, z, w) / mag_num.
Rotator_normalize(q) ==
    LET mag_sq == q.w * q.w + q.x * q.x + q.y * q.y + q.z * q.z
    IN  IF mag_sq = 0 THEN NoRotator
        ELSE [x |-> q.x, y |-> q.y, z |-> q.z, w |-> q.w, den |-> Sqrt(mag_sq)]

Rotator_multiply(a, b) ==
    [w |-> a.w * b.w - a.x * b.x - a.y * b.y - a.z * b.z,
     x |-> a.w * b.x + a.x * b.w + a.y * b.z - a.z * b.y,
     y |-> a.w * b.y - a.x * b.z + a.y * b.w + a.z * b.x,
     z |-> a.w * b.z + a.x * b.y - a.y * b.x + a.z * b.w,
     den |-> a.den * b.den]

\* q * p * conjugate(q) for the normalized q, still as a fraction.
Rotator_rotated(q, point) ==
    LET q_norm == Rotator_normalize(q)
        p == [x |-> point.x, y |-> point.y, z |-> point.z, w |-> 0, den |-> 1]
        q_conj == Rotator_conjugate(q_norm)
    IN  Rotator_multiply(Rotator_multiply(q_norm, p), q_conj)

\* The rotated point has whole-number components.
Whole(q, point) ==
    LET res == Rotator_rotated(q, point)
    IN  res.x % res.den = 0 /\ res.y % res.den = 0 /\ res.z % res.den = 0

\* apply(), for a rotated point with whole-number components.
Rotator_apply(q, point) ==
    LET res == Rotator_rotated(q, point)
    IN  Vector3D_new(res.x \div res.den, res.y \div res.den, res.z \div res.den)

-----------------------------------------------------------------------------
(* Calls of the vector and Rotator functions on values of the caller       *)

MaxComp == 1

\* The f64 components handed to Vector3D::new.
CompSet == (-MaxComp)..MaxComp

\* The signed coordinate axes: the unit vectors with whole-number components.
UnitSet ==
    { v \in [x : -1..1, y : -1..1, z : -1..1] : magnitude_sq(v) = 1 }

\* Euler triples of even quarter turns.
EulerSet == { Angle3D_new(r, p, y) : r \in {0, 2}, p \in {0, 2}, y \in {0, 2, 4} }

AxisSet == { Vector3D_new(2, 0, 0), Vector3D_new(0, 0, -1), Vector3D_new(0, 3, 4) }

\* Half angles with rational cosine and sine: 0, pi/2, and the two acute
\* angles of the 3-4-5 triangle.
HalfAngleSet ==
    { [c |-> 1, s |-> 0, d |-> 1], [c |-> 0, s |-> 1, d |-> 1],
      [c |-> 3, s |-> 4, d |-> 5], [c |-> 4, s |-> -3, d |-> 5] }

VecSet ==
    { Vector3D_new(1, 0, 0), Vector3D_new(0, -2, 0), Vector3D_new(1, 2, 3),
      Vector3D_new(0, 3, 4), Vector3D_new(25, 0, 0), Vector3D_new(0, 25, -25),
      Vector3D_new(625, 0, 0) }

InitCalc ==
    /\ view = NoView
    /\ z_buffer = [c \in Cells(1, 1) |-> 0]
    /\ projected_buffer = NoView.buffer.buffer
    /\ iter = 0
    /\ pc = "idle"
    /\ branch = "none"
    /\ shapes = <<>>
    /\ shape_log = <<>>
    /\ objs = <<>>
    /\ obj_log = <<>>
    /\ last_call = [op |-> "none"]
    /\ aborted = FALSE
    /\ calc = [op |-> "none"]
    /\ torus = [pc |-> "idle"]
    /\ term = [op |-> "none"]

\* Vector3D::new(x, y, z)
CallVectorNew ==
    /\ \E x \in CompSet, y \in CompSet, z \in CompSet :
           calc' = [op |-> "Vector3D::new", x |-> x, y |-> y, z |-> z,
                    result |-> Vector3D_new(x, y, z)]
    /\ UNCHANGED <<renderVars, shapeVars, torus, term>>

\* a.dot(b) and a.cross(b)
CallDotCross ==
    /\ \E a \in UnitSet, b \in UnitSet :
           calc' = [op |-> "dot, cross", a |-> a, b |-> b,
                    dot |-> dot(a, b), cross |-> cross(a, b)]
    /\ UNCHANGED <<renderVars, shapeVars, torus, term>>

\* Rotator::from_global(angle).apply(v)
CallFromGlobalApply ==
    /\ \E angle \in EulerSet, v \in VecSet :
           /\ Whole(Rotator_from_global(angle), v)
           /\ calc' = [op |-> "from_global, apply", angle |-> angle, v |-> v,
                       result |-> Rotator_apply(Rotator_from_global(angle), v)]
    /\ UNCHANGED <<renderVars, shapeVars, torus, term>>

\* Rotator::new(axis, t).apply(v), and on its result Rotator::new(axis, -t).apply
\* and Rotator::new(axis, t).conjugate().apply
CallRotateAndBack ==
    /\ \E axis \in AxisSet, t \in HalfAngleSet, v \in VecSet :
           LET q == Rotator_new(axis, t)
               q_neg == Rotator_new(axis, NegAngle(t))
               q_conj == Rotator_conjugate(q)
               there == Rotator_apply(q, v)
           IN  /\ Whole(q, v)
               /\ there # NoVector
               /\ Whole(q_neg, there)
               /\ Whole(q_conj, there)
               /\ calc' = [op |-> "new, apply, apply", axis |-> axis, angle |-> t, v |-> v,
                           there |-> there,
                           back_neg |-> Rotator_apply(q_neg, there),
                           back_conj |-> Rotator_apply(q_conj, there)]
    /\ UNCHANGED <<renderVars, shapeVars, torus, term>>

(* shape/shape_gen.rs: the loop bounds of CubeGenerator::generate_shape    *)

\* extent and node_dis of the generators whose bounds are computed.
ExtentSet == { 1, 2, 4 }

NodeDisSet == { 1, 2 }

\* A usize subtraction a - b.  Without underflow it is the difference.  With
\* underflow the build decides: with overflow checks the subtraction panics,
\* without them it wraps around to usize::MAX - below_max.
UsizeSub(a, b, build) ==
    IF a >= b THEN [status |-> "ok", value |-> a - b]
    ELSE IF build = "overflow checks" THEN [status |-> "panic"]
    ELSE [status |-> "wrapped", below_max |-> b - a - 1]

\* (extent / node_dis) as usize - 1 for positive extent and node_dis: the
\* cast truncates the quotient.
CubeBoundOutcome(extent, node_dis, build) ==
    UsizeSub(extent \div node_dis, 1, build)

\* The bounds `(self.z / self.node_dis) as usize - 1`, and the same for y and
\* x, of a generator, in a build with or without overflow checks.
CallCubeBounds ==
    /\ \E x \in ExtentSet, y \in ExtentSet, z \in ExtentSet, d \in NodeDisSet,
          build \in {"overflow checks", "wrapping"} :
           calc' = [op |-> "cube bounds", g |-> CubeGenerator(x, y, z, d), build |-> build,
                    bound_z |-> CubeBoundOutcome(z, d, build),
                    bound_y |-> CubeBoundOutcome(y, d, build),
                    bound_x |-> CubeBoundOutcome(x, d, build)]
    /\ UNCHANGED <<renderVars, shapeVars, torus, term>>

\* Rotator::default().apply(v)
CallDefaultApply ==
    /\ \E v \in VecSet :
           /\ Whole(Rotator_default, v)
           /\ calc' = [op |-> "default, apply", q |-> Rotator_default, v |-> v,
                       result |-> Rotator_apply(Rotator_default, v)]
    /\ UNCHANGED <<renderVars, shapeVars, torus, term>>

NextCalc ==
    \/ CallVectorNew
    \/ CallDotCross
    \/ CallFromGlobalApply
    \/ CallRotateAndBack
    \/ CallCubeBounds
    \/ CallDefaultApply

SpecCalc == InitCalc /\ [][NextCalc]_vars

-----------------------------------------------------------------------------
(* Claims about Vector3D and Rotator                                       *)

\* C12: Vector3D::new(x, y, z) produces no Vector3D exactly when x, y and z
\* are all zero, and otherwise returns the Vector3D with components x, y, z.
C12_NewFailsExactlyOnZero ==
    calc.op = "Vector3D::new" =>
        IF calc.x = 0 /\ calc.y = 0 /\ calc.z = 0
        THEN calc.result = NoVector
        ELSE calc.result = [x |-> calc.x, y |-> calc.y, z |-> calc.z]

\* C12 witness: new was called with two zero components and one that is not,
\* and returned the vector.
C12_Witness ==
    /\ calc.op = "Vector3D::new"
    /\ calc.x = 0 /\ calc.y = 0 /\ calc.z # 0
    /\ calc.result # NoVector
    /\ calc.result.z = calc.z

\* C13: for every ordered pair (a, b) of orthogonal unit vectors, a.dot(b) is
\* 0 and a.cross(b) has magnitude 1.
C13_OrthogonalDotCross ==
    ( /\ calc.op = "dot, cross"
      /\ calc.a.x * calc.b.x + calc.a.y * calc.b.y + calc.a.z * calc.b.z = 0 )
        => (calc.dot = 0 /\ magnitude_sq(calc.cross) = 1)

\* C14: the Rotator that from_global builds from roll = pitch = yaw = 0
\* returns every non-zero vector unchanged from apply.
C14_ZeroEulerIsIdentity ==
    (calc.op = "from_global, apply" /\ calc.angle = Angle3D_default)
        => calc.result = calc.v

\* C14 witness: apply of the Rotator built from all-zero angles has returned
\* a vector with three non-zero components.
C14_Witness ==
    /\ calc.op = "from_global, apply"
    /\ calc.angle = Angle3D_default
    /\ calc.v.x # 0 /\ calc.v.y # 0 /\ calc.v.z # 0
    /\ calc.result = calc.v

\* C15: applying Rotator::new(a, t) to a non-zero v and then Rotator::new(a, -t)
\* to the result returns v, and so does applying the conjugate of
\* Rotator::new(a, t) to the result.
C15_RotateAndBack ==
    calc.op = "new, apply, apply" =>
        (calc.back_neg = calc.v /\ calc.back_conj = calc.v)

\* C15 witness: a rotation about an axis that is no coordinate axis, by an
\* angle that is no multiple of a half turn, moved v and the rotation back
\* returned it.
C15_Witness ==
    /\ calc.op = "new, apply, apply"
    /\ calc.axis = Vector3D_new(0, 3, 4)
    /\ calc.angle.d = 5
    /\ calc.there # calc.v
    /\ calc.back_neg = calc.v
    /\ calc.back_conj = calc.v

-----------------------------------------------------------------------------
(* Further claims about pers_proj                                          *)

\* C16: pers_proj never aborts: no iteration of the point loop panics, be the
\* point at the camera's position or a light at the point's position.
C16_PersProjTotal == pc # "panicked"

\* Scenes whose objects carry a stored orientation and whose points lie
\* above and below the camera's axis.
Oriented(location, rotation, points) ==
    Object_new_with_shape(location, ShapeOf(points), rotation, Coord_default)

P_raised == Point_new(Coord_new(2, 0, 1), Vector3D_new(-1, 0, 0))

P_lowered == Point_new(Coord_new(2, 0, -1), Vector3D_new(-1, 0, 0))

OrientedObjectSet ==
    { Oriented(Coord_new(0, 0, 0), Angle3D_default, <<P_far>>),
      Oriented(Coord_new(0, 0, 0), Angle3D_default, <<P_raised, P_lowered>>),
      Oriented(Coord_new(0, 0, 0), Angle3D_new(1, 0, 0), <<P_raised>>),
      Oriented(Coord_new(1, 0, 0), Angle3D_new(2, 0, 0), <<P_near, P_side>>),
      Oriented(Coord_new(1, 0, 1), Angle3D_new(0, 0, 1), <<P_near>>) }

OrientedViews ==
    { [camera |-> Camera_new(Coord_new(0, 0, 0), Vector3D_new(1, 0, 0), fov),
       lights |-> ls, objects |-> os,
       buffer |-> SimpleTerminalBuffer_new(sz[1], sz[2])] :
        fov \in FovSet,
        ls \in SeqsUpTo({Light3D_new(Coord_new(0, 0, 0))}, MaxLights),
        os \in SeqsUpTo(OrientedObjectSet, MaxObjects),
        sz \in { <<4, 4>>, <<5, 3>> } }

InitOriented ==
    /\ view \in OrientedViews
    /\ z_buffer = [c \in Cells(view.buffer.size_x, view.buffer.size_y) |-> 0]
    /\ projected_buffer =
           SimpleTerminalBuffer_new(view.buffer.size_x, view.buffer.size_y).buffer
    /\ iter = 0
    /\ pc = "loop"
    /\ branch = "none"
    /\ shapes = <<>>
    /\ shape_log = <<>>
    /\ objs = <<>>
    /\ obj_log = <<>>
    /\ last_call = [op |-> "none"]
    /\ aborted = FALSE
    /\ calc = [op |-> "none"]
    /\ torus = [pc |-> "idle"]
    /\ term = [op |-> "none"]

SpecOriented == InitOriented /\ [][Next]_vars

\* Iteration i is done and its point's depth is the one stored in its cell.
Landed(i) ==
    /\ i <= iter
    /\ PtPv(i) # NoVector
    /\ PtInBounds(i)
    /\ z_buffer[PtCell(i)] = PtDistSq(i)

\* C17: of two points in front of the camera with the same forward and the
\* same first lateral component, the one with the larger up component
\* (cpv_z) lands in a row index less than or equal to the other's; and a
\* point with positive up component lands in a row at or above the centre
\* row H/2.
C17_RowDecreasesWithUp ==
    /\ \A i \in 1..NPoints, j \in 1..NPoints :
           ( /\ Landed(i) /\ Landed(j)
             /\ PtCpv(i).x > 0
             /\ PtCpv(i).x = PtCpv(j).x
             /\ PtCpv(i).y = PtCpv(j).y
             /\ PtCpv(i).z > PtCpv(j).z )
               => PtXY(i).y <= PtXY(j).y
    /\ \A i \in 1..NPoints :
           (Landed(i) /\ PtCpv(i).x > 0 /\ PtCpv(i).z > 0)
               => 2 * PtXY(i).y <= view.buffer.size_y

\* The world position of the point of iteration i with the object's stored
\* orientation applied to the point's local position.
OrientedWorld(i) ==
    Coord_add(RotatedOffset(Pt(i).rel_coord, PtObj(i).rotation), PtObj(i).location)

\* C18: an iteration that stores a depth stores it for the world position
\* "object orientation applied to the point's local position, plus object
\* location": in the cell that position projects to, with that position's
\* distance from the camera.
C18_WorldPositionUsesOrientation ==
    [][ (Processing /\ z_buffer' # z_buffer) =>
            LET pv == CameraVector(view, OrientedWorld(iter + 1))
            IN  /\ pv # NoVector
                /\ LET b == Project(view, pv)
                   IN  /\ ~OutOfBounds(b.x, b.y, view.buffer.size_x, view.buffer.size_y)
                       /\ z_buffer' = [z_buffer EXCEPT
                              ![b.y * view.buffer.size_x + b.x] = magnitude_sq(pv)] ]_vars

-----------------------------------------------------------------------------
(* TorusGenerator::generate_shape as a state machine: one step per loop    *)
(* test.  torus.pc is "outer" at the test of `while a < 2.0 * PI`, "inner" *)
(* at the test of `while b < 2.0 * PI`, "done" after the outer loop.       *)

MaxPush == 16

\* angle_iter.0 and angle_iter.1 in quarter turns; the fields are public, so
\* zero and negative steps are values a generator can hold.
StepSet == { -1, 0, 1, 2 }

TorusSet == { TorusGenerator(1, 2, <<sa, sb>>) : sa \in StepSet, sb \in StepSet }

\* The Point pushed for the angles a and b.
Torus_point(g, a, b) ==
    Point_new(
        Coord_new(g.thickness * Cos(b),
                  (g.radius + g.thickness * Sin(b)) * Cos(a),
                  (g.radius + g.thickness * Sin(b)) * Sin(a)),
        Vector3D_new(Cos(b), Sin(b) * Cos(a), Sin(b) * Sin(a)))

InitTorus ==
    /\ view = NoView
    /\ z_buffer = [c \in Cells(1, 1) |-> 0]
    /\ projected_buffer = NoView.buffer.buffer
    /\ iter = 0
    /\ pc = "idle"
    /\ branch = "none"
    /\ shapes = <<>>
    /\ shape_log = <<>>
    /\ objs = <<>>
    /\ obj_log = <<>>
    /\ last_call = [op |-> "none"]
    /\ aborted = FALSE
    /\ calc = [op |-> "none"]
    /\ \E g \in TorusSet :
           torus = [pc |-> "outer", g |-> g, a |-> 0, b |-> 0, points |-> <<>>]
    /\ term = [op |-> "none"]

\* `while a < 2.0 * PI` holds: `let mut b = 0.0`
TorusOuterEnter ==
    /\ torus.pc = "outer"
    /\ torus.a < 4
    /\ torus' = [torus EXCEPT !.pc = "inner", !.b = 0]
    /\ UNCHANGED <<renderVars, shapeVars, calc, term>>

\* `while a < 2.0 * PI` fails: generate_shape returns
TorusOuterExit ==
    /\ torus.pc = "outer"
    /\ torus.a >= 4
    /\ torus' = [torus EXCEPT !.pc = "done"]
    /\ UNCHANGED <<renderVars, shapeVars, calc, term>>

\* `while b < 2.0 * PI` holds: push the Point, `b += self.angle_iter.1`
TorusInnerPush ==
    /\ torus.pc = "inner"
    /\ torus.b < 4
    /\ Len(torus.points) < MaxPush
    /\ torus' = [torus EXCEPT
           !.points = Append(@, Torus_point(torus.g, torus.a, torus.b)),
           !.b = @ + torus.g.angle_iter[2]]
    /\ UNCHANGED <<renderVars, shapeVars, calc, term>>

\* `while b < 2.0 * PI` fails: `a += self.angle_iter.0`
TorusInnerExit ==
    /\ torus.pc = "inner"
    /\ torus.b >= 4
    /\ torus' = [torus EXCEPT !.pc = "outer", !.a = @ + torus.g.angle_iter[1]]
    /\ UNCHANGED <<renderVars, shapeVars, calc, term>>

NextTorus ==
    \/ TorusOuterEnter
    \/ TorusOuterExit
    \/ TorusInnerPush
    \/ TorusInnerExit

SpecTorus == InitTorus /\ [][NextTorus]_vars

\* The number of values 0, step, 2 * step, ... below a full turn.
StepCount(step) == Cardinality({ k \in 0..4 : k * step < 4 /\ (k = 0 \/ step > 0) })

\* C19: generate_shape terminates for every generator value: every pass of
\* the inner loop moves b, and every pass of the outer loop moves a, towards
\* the full turn that ends the loop; and when it has returned it has appended
\* n_a * n_b points, one per pair (a, b).
C19_TorusTerminatesWithCount ==
    /\ [][ (torus.pc = "inner" /\ torus'.pc = "inner") => torus'.b > torus.b ]_vars
    /\ [][ (torus.pc = "inner" /\ torus'.pc = "outer") => torus'.a > torus.a ]_vars
    /\ [](torus.pc = "done" =>
             Len(torus.points) =
                 StepCount(torus.g.angle_iter[1]) * StepCount(torus.g.angle_iter[2]))

-----------------------------------------------------------------------------
(* out/terminal.rs: calls on a SimpleTerminalBuffer.  term.buf is the      *)
(* buffer, term.status is "ok", or the panic that ended the last call.     *)

MaxLen == 4

\* size_x and size_y of the buffers constructed.
DimSet == { 1, 2 }

\* A Vec<char> of n elements, indexed from 0.
VecOf(n, ch) == [i \in 0..(n - 1) |-> ch]

VecLen(v) == Cardinality(DOMAIN v)

\* The vectors handed to new_with_buffer and replace_buffer.
CharVecSet == { VecOf(n, "#") : n \in 0..MaxLen }

SimpleTerminalBuffer_replace_buffer(self, new_buffer) ==
    [self EXCEPT !.buffer = new_buffer]

SimpleTerminalBuffer_replace_buffer_self(self, new_buffer) ==
    SimpleTerminalBuffer_replace_buffer(self, new_buffer.buffer)

SimpleTerminalBuffer_new_with_buffer(size_x, size_y, buffer) ==
    SimpleTerminalBuffer_replace_buffer(SimpleTerminalBuffer_new(size_x, size_y), buffer)

\* How get(y, x) and set(y, x, val) end: the two asserts, then the index.
AccessStatus(self, y, x) ==
    IF ~(y < self.size_y) \/ ~(x < self.size_x) THEN "assert failed"
    ELSE IF y * self.size_x + x \notin DOMAIN self.buffer THEN "index out of bounds"
    ELSE "ok"

SimpleTerminalBuffer_get(self, y, x) == self.buffer[y * self.size_x + x]

SimpleTerminalBuffer_set(self, y, x, val) ==
    [self EXCEPT !.buffer[y * self.size_x + x] = val]

InitTerm ==
    /\ view = NoView
    /\ z_buffer = [c \in Cells(1, 1) |-> 0]
    /\ projected_buffer = NoView.buffer.buffer
    /\ iter = 0
    /\ pc = "idle"
    /\ branch = "none"
    /\ shapes = <<>>
    /\ shape_log = <<>>
    /\ objs = <<>>
    /\ obj_log = <<>>
    /\ last_call = [op |-> "none"]
    /\ aborted = FALSE
    /\ calc = [op |-> "none"]
    /\ torus = [pc |-> "idle"]
    /\ \E sx \in DimSet, sy \in DimSet :
           term = [op |-> "new", status |-> "ok",
                   buf |-> SimpleTerminalBuffer_new(sx, sy)]

\* SimpleTerminalBuffer::new(size_x, size_y)
TermNew ==
    /\ term.status = "ok"
    /\ \E sx \in DimSet, sy \in DimSet :
           term' = [op |-> "new", status |-> "ok",
                    buf |-> SimpleTerminalBuffer_new(sx, sy)]
    /\ UNCHANGED <<renderVars, shapeVars, calc, torus>>

\* SimpleTerminalBuffer::new_with_buffer(size_x, size_y, buffer)
TermNewWithBuffer ==
    /\ term.status = "ok"
    /\ \E sx \in DimSet, sy \in DimSet, v \in CharVecSet :
           term' = [op |-> "new_with_buffer", status |-> "ok",
                    buf |-> SimpleTerminalBuffer_new_with_buffer(sx, sy, v)]
    /\ UNCHANGED <<renderVars, shapeVars, calc, torus>>

\* buf.replace_buffer(new_buffer)
TermReplaceBuffer ==
    /\ term.status = "ok"
    /\ \E v \in CharVecSet :
           term' = [op |-> "replace_buffer", status |-> "ok",
                    buf |-> SimpleTerminalBuffer_replace_buffer(term.buf, v)]
    /\ UNCHANGED <<renderVars, shapeVars, calc, torus>>

\* buf.replace_buffer_self(other), other made by new
TermReplaceBufferSelf ==
    /\ term.status = "ok"
    /\ \E sx \in DimSet, sy \in DimSet :
           term' = [op |-> "replace_buffer_self", status |-> "ok",
                    buf |-> SimpleTerminalBuffer_replace_buffer_self(
                                term.buf, SimpleTerminalBuffer_new(sx, sy))]
    /\ UNCHANGED <<renderVars, shapeVars, calc, torus>>

\* buf.set(y, x, '@')
TermSet ==
    /\ term.status = "ok"
    /\ \E y \in 0..term.buf.size_y, x \in 0..term.buf.size_x :
           LET st == AccessStatus(term.buf, y, x)
           IN  term' = [op |-> "set", status |-> st, y |-> y, x |-> x,
                        buf |-> IF st = "ok"
                                THEN SimpleTerminalBuffer_set(term.buf, y, x, "@")
                                ELSE term.buf]
    /\ UNCHANGED <<renderVars, shapeVars, calc, torus>>

\* buf.get(y, x)
TermGet ==
    /\ term.status = "ok"
    /\ \E y \in 0..term.buf.size_y, x \in 0..term.buf.size_x :
           LET st == AccessStatus(term.buf, y, x)
           IN  term' = [op |-> "get", status |-> st, y |-> y, x |-> x,
                        buf |-> term.buf]
    /\ UNCHANGED <<renderVars, shapeVars, calc, torus>>

NextTerm ==
    \/ TermNew
    \/ TermNewWithBuffer
    \/ TermReplaceBuffer
    \/ TermReplaceBufferSelf
    \/ TermSet
    \/ TermGet

SpecTerm == InitTerm /\ [][NextTerm]_vars

\* C20: after any sequence of new, new_with_buffer, set, replace_buffer and
\* replace_buffer_self calls the backing vector holds size_x * size_y
\* elements, and no get or set with y < size_y and x < size_x indexes outside
\* the backing vector.
C20_BufferLengthInvariant ==
    /\ VecLen(term.buf.buffer) = term.buf.size_x * term.buf.size_y
    /\ term.status # "index out of bounds"

-----------------------------------------------------------------------------
(* Claim about the two buffers of pers_proj                                *)

\* C21: at every step of the point loop the depth buffer and the output
\* buffer agree: a cell's stored depth differs from its initial value exactly
\* when the cell holds a non-blank glyph, and that glyph is the one computed
\* for a point of a completed iteration that lies in the cell at the stored
\* depth.
C21_BuffersAgree ==
    pc \in {"loop", "returned"} =>
        \A c \in DOMAIN z_buffer :
            /\ (z_buffer[c] # 0) <=> (projected_buffer[c] # " ")
            /\ projected_buffer[c] # " " =>
                   \E i \in 1..iter :
                       /\ PtPv(i) # NoVector
                       /\ PtInBounds(i)
                       /\ PtCell(i) = c
                       /\ PtDistSq(i) = z_buffer[c]
                       /\ PtLit(i) # NoVector
                       /\ PtLit(i).lumi_index \in 0..(lumi_length - 1)
                       /\ PtGlyph(i) = projected_buffer[c]

-----------------------------------------------------------------------------
(* Claims about the cube's loop bounds and the default Rotator             *)

\* C22: for every generator with positive extents and positive node_dis,
\* extents smaller than node_dis included, each loop bound
\* floor(extent / node_dis) - 1 is computed without underflow.
C22_CubeBoundsNoUnderflow ==
    calc.op = "cube bounds" =>
        /\ calc.bound_z = [status |-> "ok", value |-> (calc.g.z \div calc.g.node_dis) - 1]
        /\ calc.bound_y = [status |-> "ok", value |-> (calc.g.y \div calc.g.node_dis) - 1]
        /\ calc.bound_x = [status |-> "ok", value |-> (calc.g.x \div calc.g.node_dis) - 1]

\* C23: Rotator::default() equals the Rotator that from_global builds from
\* all-zero Euler angles, and its apply returns every non-zero vector
\* unchanged.
C23_DefaultRotatorIsIdentity ==
    calc.op = "default, apply" =>
        /\ calc.q = Rotator_from_global(Angle3D_default)
        /\ calc.result = calc.v

====
